---- MODULE Spec2Model ----
(***************************************************************************)
(* Incremental indexing pipeline of the knowledge base (IndexManager):     *)
(* hash based change detection (_build_tasks), the worker body             *)
(* (_prepare_nodes), the coordinator (update_index) and stale fragment     *)
(* deletion (_delete_document), in the three variants kept in the          *)
(* repository:                                                             *)
(*   SpecPar  no_reupload.py   cache-only classification, thread pool      *)
(*   SpecFt   new_working.py + new_test_1110.py + finetuning.py            *)
(*            store lookup classification, thread pool                     *)
(*   SpecSeq  new_storing.py / new_test_1107.py   sequential, with delete  *)
(***************************************************************************)
EXTENDS Integers, Sequences, FiniteSets, TLC

\* ---------------------------------------------------------------- bounds
\* files of the knowledge base, and distinct contents a file takes
NumDocs == 2
NumHashes == 2
\* update_index calls on one IndexManager: thread pool variants, sequential variant
MaxRuns == 2
MaxRunsSeq == 1
\* operations that raise, and documents without a usable file_hash, per behaviour
MaxFaults == 1

\* Python's None (a missing dict entry read with .get, a failed lookup)
None == 0

Paths == 1..NumDocs
Hashes == 1..NumHashes
\* a document whose docs[0].metadata cannot be read (the read raises)
Malformed == NumHashes + 1
Keys == Paths \X Hashes

VARIABLES
    vector_store,     \* [Keys -> Nat]: number of text nodes per (file_path, file_hash)
    summary_store,    \* [Keys -> Nat]: number of summary nodes per (file_path, file_hash)
    file_name,        \* [Paths -> Names]: metadata["file_name"] of each file_path
    _cached_hashes,   \* the dict self._cached_hashes
    documents,        \* the dict documents of the current run: file_path -> incoming file_hash
    run,              \* number of update_index calls started
    main_pc,          \* position of the thread running update_index
    build_i,          \* next file_path _build_tasks looks at
    tasks,            \* the list tasks
    existing_hash,    \* the local existing_hash of each _build_tasks iteration of this run
    lookup_raised,    \* documents whose _get_file_hash_from_store raised in this run
    wpc,              \* position of the worker of each document
    werr,             \* third component of the worker's result tuple
    results,          \* the list results
    success_count,
    fail_count,
    ret,              \* value returned by the last finished update_index
    task_i,           \* sequential update_index: index of the task in the for loop
    phase,            \* sequential update_index: next store operation of that task
    log,              \* store operations of this run, in issue order
    faults,           \* number of operations that raised, and of documents read
                      \* without a usable file_hash, so far
    clean,            \* no such event during this run
    add_calls,        \* vector_store.add / summary_store.add calls issued in this run
    delete_calls,     \* store delete passes issued in this run
    store0,           \* <<vector_store, summary_store>> when this run started
    repeat_run,       \* this run reads the same documents as the run before it, which
                      \* returned normally without any operation raising
    retry_partial,    \* documents this run reads again, unchanged, after the run before
                      \* it counted them failed with their text nodes already added
    sheet,            \* ExcelParser: the worksheet (or workbook) handed to the parser
    output,           \* ExcelParser: what the called method has produced
    xpc               \* ExcelParser: position of the call

vars == <<vector_store, summary_store, file_name, _cached_hashes, documents, run,
          main_pc, build_i, tasks, existing_hash, lookup_raised, wpc, werr, results,
          success_count, fail_count, ret, task_i, phase, log, faults, clean, add_calls,
          delete_calls, store0, repeat_run, retry_partial, sheet, output, xpc>>

\* ------------------------------------------------------------- helpers

\* dict.get(k): None when k is missing
DictGet(d, k) == IF k \in DOMAIN d THEN d[k] ELSE None

\* d[k] = v
DictSet(d, k, v) == [x \in (DOMAIN d) \cup {k} |-> IF x = k THEN v ELSE d[x]]

EmptyDict == [x \in {} |-> None]

EmptyStore == [k \in Keys |-> 0]

\* store.add(nodes) of the nodes of one document
StoreAdd(store, p, h) == [store EXCEPT ![<<p, h>>] = @ + 1]

\* for ... in documents.items(): the next file_path at or after i
NextDoc(i) ==
    IF \E p \in DOMAIN documents : p >= i
    THEN CHOOSE p \in DOMAIN documents : p >= i /\ \A q \in DOMAIN documents : q >= i => p <= q
    ELSE NumDocs + 1

\* Hash values are numbered per file in the order in which the pipeline meets
\* them: the largest hash of file p that the stores, the cache or the documents
\* of the run before still hold (None when there is none). A run reads, for
\* each file, a hash it has met or the next unused one.
KnownMax(p) ==
    LET known == {h \in Hashes : \/ vector_store[<<p, h>>] > 0
                                \/ summary_store[<<p, h>>] > 0
                                \/ DictGet(_cached_hashes, p) = h
                                \/ DictGet(documents, p) = h}
    IN IF known = {} THEN None ELSE CHOOSE h \in known : \A g \in known : g <= h

\* Python truthiness of the err component of a result
Truthy(err) == err \notin {"None", ""}

Idle == main_pc \in {"idle", "done", "raised"}

TaskDocs == {tasks[i][1] : i \in 1..Len(tasks)}

TaskOf(p) == CHOOSE i \in 1..Len(tasks) : tasks[i][1] = p

\* documents of a knowledge base whose metadata gives no usable file_hash
Unreadable(docs) == Cardinality({p \in DOMAIN docs : docs[p] \notin Hashes})

\* what every update_index call resets before it reads the knowledge base
ResetRun(docs) ==
    /\ documents' = docs
    /\ run' = run + 1
    /\ tasks' = <<>>
    /\ existing_hash' = EmptyDict
    /\ lookup_raised' = {}
    /\ wpc' = [p \in Paths |-> "none"]
    /\ werr' = [p \in Paths |-> "None"]
    /\ results' = <<>>
    /\ success_count' = 0
    /\ fail_count' = 0
    /\ task_i' = 1
    /\ phase' = "none"
    /\ log' = <<>>
    /\ faults' = faults + Unreadable(docs)
    /\ clean' = (Unreadable(docs) = 0)
    /\ add_calls' = 0
    /\ delete_calls' = 0
    /\ store0' = <<vector_store, summary_store>>
    /\ repeat_run' = (main_pc = "done" /\ clean /\ docs = documents)
    /\ retry_partial' = IF main_pc = "done" /\ docs = documents
                        THEN {p \in TaskDocs : wpc[p] = "done" /\ werr[p] = "summary_store.add"}
                        ELSE {}
    /\ UNCHANGED <<sheet, output, xpc>>

InitCommon ==
    /\ _cached_hashes = EmptyDict
    /\ documents = EmptyDict
    /\ run = 0
    /\ main_pc = "idle"
    /\ build_i = 1
    /\ tasks = <<>>
    /\ existing_hash = EmptyDict
    /\ lookup_raised = {}
    /\ wpc = [p \in Paths |-> "none"]
    /\ werr = [p \in Paths |-> "None"]
    /\ results = <<>>
    /\ success_count = 0
    /\ fail_count = 0
    /\ ret = None
    /\ task_i = 1
    /\ phase = "none"
    /\ log = <<>>
    /\ faults = 0
    /\ clean = TRUE
    /\ add_calls = 0
    /\ delete_calls = 0
    /\ repeat_run = FALSE
    /\ retry_partial = {}

\* no ExcelParser call is under way
ParserIdle == sheet = None /\ output = None /\ xpc = "none"

\* ======================================================================
\* SpecPar: no_reupload.py
\* ======================================================================

\* update_index, lines 117-123: read the knowledge base, return 0 when it is
\* empty, else enter _build_tasks (which keeps an existing _cached_hashes)
update_index_no_reupload ==
    /\ Idle
    /\ run < MaxRuns
    /\ \E S \in {{}, Paths} : \E docs \in [S -> Hashes] :
        /\ \A p \in S : docs[p] <= KnownMax(p) + 1
        /\ ResetRun(docs)
        /\ IF S = {}
           THEN /\ main_pc' = "done"
                /\ ret' = 0
                /\ build_i' = 1
           ELSE /\ main_pc' = "build"
                /\ ret' = None
                /\ build_i' = CHOOSE p \in S : \A q \in S : p <= q
    /\ UNCHANGED <<vector_store, summary_store, file_name, _cached_hashes>>

\* the branch of _build_tasks taken for one document: the task tuple
\* (doc_name, docs, action) it appends, or nothing for an unchanged document
Classify_no_reupload(doc_name, incoming_hash, existing) ==
    IF existing = None THEN <<  <<doc_name, incoming_hash, "new">>  >>
    ELSE IF existing # incoming_hash THEN <<  <<doc_name, incoming_hash, "modified">>  >>
    ELSE <<>>

\* one iteration of the loop of _build_tasks
_build_tasks_no_reupload ==
    /\ main_pc = "build"
    /\ build_i <= NumDocs
    /\ LET doc_name == build_i
           incoming_hash == documents[doc_name]
           existing == DictGet(_cached_hashes, doc_name)
       IN /\ existing_hash' = DictSet(existing_hash, doc_name, existing)
          /\ tasks' = tasks \o Classify_no_reupload(doc_name, incoming_hash, existing)
    /\ build_i' = NextDoc(build_i + 1)
    /\ UNCHANGED <<vector_store, summary_store, file_name, _cached_hashes, documents, run,
                   main_pc, lookup_raised, wpc, werr, results, success_count, fail_count,
                   ret, task_i, phase, log, faults, clean, add_calls, delete_calls, store0,
                   repeat_run, retry_partial, sheet, output, xpc>>

\* a variant of NothingToIndex that reports the documents left alone as succeeded
NothingToIndex_unchanged == Cardinality(DOMAIN documents)

\* update_index, lines 126-128: what is returned when _build_tasks gave no task
NothingToIndex == 0

\* update_index, lines 125-135: nothing to index returns 0, else every task is
\* submitted to the thread pool
dispatch_no_reupload ==
    /\ main_pc = "build"
    /\ build_i > NumDocs
    /\ IF tasks = <<>>
       THEN /\ main_pc' = "done"
            /\ ret' = NothingToIndex
            /\ wpc' = wpc
       ELSE /\ main_pc' = "pool"
            /\ ret' = ret
            /\ wpc' = [p \in Paths |-> IF p \in TaskDocs THEN "pending" ELSE "none"]
    /\ UNCHANGED <<vector_store, summary_store, file_name, _cached_hashes, documents, run,
                   build_i, tasks, existing_hash, lookup_raised, werr, results,
                   success_count, fail_count, task_i, phase, log, faults, clean, add_calls,
                   delete_calls, store0, repeat_run, retry_partial, sheet, output, xpc>>

\* _prepare_nodes, lines 47-76: chunk (with the splitter fallback), attach the
\* metadata, embed and vector_store.add; any exception ends the task with it
_prepare_nodes_vector_no_reupload(p) ==
    /\ main_pc = "pool"
    /\ wpc[p] = "pending"
    /\ \/ /\ faults < MaxFaults
          /\ \E e \in {"embed", "vector_store.add"} :
                /\ werr' = [werr EXCEPT ![p] = e]
                /\ add_calls' = IF e = "vector_store.add" THEN add_calls + 1 ELSE add_calls
          /\ wpc' = [wpc EXCEPT ![p] = "done"]
          /\ faults' = faults + 1 /\ clean' = FALSE
          /\ UNCHANGED vector_store
       \/ /\ vector_store' = StoreAdd(vector_store, p, documents[p])
          /\ add_calls' = add_calls + 1
          /\ wpc' = [wpc EXCEPT ![p] = "summary"]
          /\ UNCHANGED <<werr, faults, clean>>
    /\ UNCHANGED <<summary_store, file_name, _cached_hashes, documents, run, main_pc,
                   build_i, tasks, existing_hash, lookup_raised, results, success_count,
                   fail_count, ret, task_i, phase, log, delete_calls, store0,
                   repeat_run, retry_partial, sheet, output, xpc>>

\* _prepare_nodes, lines 81-104: generate and embed the summary,
\* summary_store.add, then record the indexed hash in the cache and return
_prepare_nodes_summary_no_reupload(p) ==
    /\ main_pc = "pool"
    /\ wpc[p] = "summary"
    /\ \/ /\ faults < MaxFaults
          /\ \E e \in {"summary", "summary_store.add"} :
                /\ werr' = [werr EXCEPT ![p] = e]
                /\ add_calls' = IF e = "summary_store.add" THEN add_calls + 1 ELSE add_calls
          /\ wpc' = [wpc EXCEPT ![p] = "done"]
          /\ faults' = faults + 1 /\ clean' = FALSE
          /\ UNCHANGED <<summary_store, _cached_hashes>>
       \/ /\ summary_store' = StoreAdd(summary_store, p, documents[p])
          /\ add_calls' = add_calls + 1
          /\ _cached_hashes' = DictSet(_cached_hashes, p, documents[p])
          /\ wpc' = [wpc EXCEPT ![p] = "done"]
          /\ UNCHANGED <<werr, faults, clean>>
    /\ UNCHANGED <<vector_store, file_name, documents, run, main_pc,
                   build_i, tasks, existing_hash, lookup_raised, results, success_count,
                   fail_count, ret, task_i, phase, log, delete_calls, store0,
                   repeat_run, retry_partial, sheet, output, xpc>>

\* _prepare_nodes, lines 96-101: whether the worker of p holds a lock while it
\* writes self._cached_hashes[doc_name]; the module creates and takes none
CacheLockHeld(p) == FALSE

\* update_index, lines 134-137: the workers other than that of p which the pool
\* may still be running
OthersRunning(p) == {q \in TaskDocs \ {p} : wpc[q] \in {"pending", "summary"}}

\* update_index, lines 148-154: the results whose err is truthy
CountFailed(rs) == Cardinality({i \in 1..Len(rs) : Truthy(rs[i][2])})

\* a variant of CountSucceeded that counts a result whatever its err is
CountSucceeded_all(rs) == Len(rs)

\* update_index, lines 148-154: the results whose err is falsy
CountSucceeded(rs) == Cardinality({i \in 1..Len(rs) : ~Truthy(rs[i][2])})

\* a variant of ResultsOf in which only the first finished future is collected
ResultsOf_first(ts) == [i \in 1..1 |-> <<ts[i][1], werr[ts[i][1]]>>]

\* the list results once as_completed has handed over every future: one
\* (doc_name, nodes, err) per task; the counting loop does not depend on its order
ResultsOf(ts) == [i \in 1..Len(ts) |-> <<ts[i][1], werr[ts[i][1]]>>]

\* update_index, lines 136-161: wait for every future, count the results and
\* return success_count
collect_no_reupload ==
    /\ main_pc = "pool"
    /\ \A p \in TaskDocs : wpc[p] = "done"
    /\ results' = ResultsOf(tasks)
    /\ success_count' = CountSucceeded(ResultsOf(tasks))
    /\ fail_count' = CountFailed(ResultsOf(tasks))
    /\ ret' = CountSucceeded(ResultsOf(tasks))
    /\ main_pc' = "done"
    /\ UNCHANGED <<vector_store, summary_store, file_name, _cached_hashes, documents, run,
                   build_i, tasks, existing_hash, lookup_raised, wpc, werr,
                   task_i, phase, log, faults, clean, add_calls, delete_calls, store0,
                   repeat_run, retry_partial, sheet, output, xpc>>

\* _prepare_nodes, lines 35-104, as one call on the state st = [vector_store,
\* summary_store, _cached_hashes, results] that ends with err
PrepareNodesCall(st, task, err) ==
    LET doc_name == task[1]
        file_hash == task[2]
        stored == IF err \in {"embed", "vector_store.add"} THEN st.vector_store
                  ELSE StoreAdd(st.vector_store, doc_name, file_hash)
    IN  [vector_store |-> stored,
         summary_store |-> IF Truthy(err) THEN st.summary_store
                           ELSE StoreAdd(st.summary_store, doc_name, file_hash),
         _cached_hashes |-> IF Truthy(err) THEN st._cached_hashes
                            ELSE DictSet(st._cached_hashes, doc_name, file_hash),
         results |-> Append(st.results, <<doc_name, err>>)]

\* update_index, lines 138-140 (parallel=False): the tasks from index i on are
\* run one after another, task of document p ending with err[p]
RECURSIVE SequentialRun(_, _, _, _)
SequentialRun(st, ts, i, err) ==
    IF i > Len(ts) THEN st
    ELSE SequentialRun(PrepareNodesCall(st, ts[i], err[ts[i][1]]), ts, i + 1, err)

InitPar ==
    /\ InitCommon
    /\ ParserIdle
    /\ vector_store = EmptyStore
    /\ summary_store = EmptyStore
    /\ file_name = [p \in Paths |-> p]
    /\ store0 = <<EmptyStore, EmptyStore>>

NextPar ==
    \/ update_index_no_reupload
    \/ _build_tasks_no_reupload
    \/ dispatch_no_reupload
    \/ \E p \in Paths : _prepare_nodes_vector_no_reupload(p)
    \/ \E p \in Paths : _prepare_nodes_summary_no_reupload(p)
    \/ collect_no_reupload

SpecPar == InitPar /\ [][NextPar]_vars

\* ======================================================================
\* SpecFt: new_working.py (_get_file_hash_from_store, _build_tasks),
\*         new_test_1110.py (_prepare_nodes), finetuning.py (update_index)
\* ======================================================================

\* VectorIndexRetriever(similarity_top_k=5), new_working.py line 9
similarity_top_k == 5

RECURSIVE SumOver(_, _)
SumOver(store, ks) ==
    IF ks = {} THEN 0
    ELSE LET k == CHOOSE x \in ks : TRUE IN store[k] + SumOver(store, ks \ {k})

\* _get_file_hash_from_store, lines 6-23, when the retrieval does not raise:
\* the file_hash of the first retrieved node whose file_path is doc_name, any
\* of the stored ones since the retrieval order is by similarity; None when no
\* such node is among the similarity_top_k retrieved ones
LookupReturns(doc_name) ==
    LET mine == {h \in Hashes : vector_store[<<doc_name, h>>] > 0}
        others == SumOver(vector_store, {k \in Keys : k[1] # doc_name})
    IN mine \cup (IF mine = {} \/ others >= similarity_top_k THEN {None} ELSE {})

\* a variant of LookupRaised that takes the stored hash to be the incoming one
LookupRaised_unchanged(doc_name) == documents[doc_name]

\* _get_file_hash_from_store, lines 25-27: a retrieval that raises gives None
LookupRaised(doc_name) == None

\* a variant of Classify_new_working that does not compare the two hashes
Classify_new_working_always(doc_name, incoming_hash, existing, streamlit_off) ==
    IF existing = None THEN <<  <<doc_name, incoming_hash, "new", streamlit_off>>  >>
    ELSE <<  <<doc_name, incoming_hash, "overwrite", streamlit_off>>  >>

\* _build_tasks, lines 53-61: the task tuple the hash comparison appends
Classify_new_working(doc_name, incoming_hash, existing, streamlit_off) ==
    IF existing = None THEN <<  <<doc_name, incoming_hash, "new", streamlit_off>>  >>
    ELSE IF existing # incoming_hash
         THEN <<  <<doc_name, incoming_hash, "overwrite", streamlit_off>>  >>
    ELSE <<>>

\* update_index, lines 68-74: read the knowledge base, return 0 when it is
\* empty, else enter _build_tasks (which keeps an existing _cached_hashes)
update_index_finetuning ==
    /\ Idle
    /\ run < MaxRuns
    /\ \E S \in {{}, Paths} : \E docs \in [S -> Hashes \cup {None, Malformed}] :
        /\ \A p \in S : docs[p] \in Hashes => docs[p] <= KnownMax(p) + 1
        /\ faults + Unreadable(docs) <= MaxFaults
        /\ ResetRun(docs)
        /\ IF S = {}
           THEN /\ main_pc' = "done"
                /\ ret' = 0
                /\ build_i' = 1
           ELSE /\ main_pc' = "build"
                /\ ret' = None
                /\ build_i' = CHOOSE p \in S : \A q \in S : p <= q
    /\ UNCHANGED <<vector_store, summary_store, file_name, _cached_hashes>>

\* _build_tasks, lines 39-65: one iteration of the loop
_build_tasks_new_working ==
    /\ main_pc = "build"
    /\ build_i <= NumDocs
    /\ LET doc_name == build_i
           incoming_hash == documents[doc_name]
           cached == DictGet(_cached_hashes, doc_name)
       IN \/ /\ incoming_hash = Malformed
             /\ tasks' = Append(tasks, <<doc_name, None, "error">>)
             /\ UNCHANGED <<_cached_hashes, existing_hash, lookup_raised, faults, clean>>
          \/ /\ incoming_hash = None
             /\ UNCHANGED <<tasks, _cached_hashes, existing_hash, lookup_raised, faults, clean>>
          \/ /\ incoming_hash \in Hashes
             /\ cached # None
             /\ existing_hash' = DictSet(existing_hash, doc_name, cached)
             /\ tasks' = tasks \o Classify_new_working(doc_name, incoming_hash, cached, FALSE)
             /\ UNCHANGED <<_cached_hashes, lookup_raised, faults, clean>>
          \/ /\ incoming_hash \in Hashes
             /\ cached = None
             /\ \/ \E found \in LookupReturns(doc_name) :
                      /\ existing_hash' = DictSet(existing_hash, doc_name, found)
                      /\ _cached_hashes' = DictSet(_cached_hashes, doc_name, found)
                      /\ tasks' = tasks \o
                            Classify_new_working(doc_name, incoming_hash, found, FALSE)
                      /\ UNCHANGED <<lookup_raised, faults, clean>>
                \/ /\ faults < MaxFaults
                   /\ faults' = faults + 1 /\ clean' = FALSE
                   /\ lookup_raised' = lookup_raised \cup {doc_name}
                   /\ existing_hash' = DictSet(existing_hash, doc_name, LookupRaised(doc_name))
                   /\ _cached_hashes' = DictSet(_cached_hashes, doc_name, LookupRaised(doc_name))
                   /\ tasks' = tasks \o
                         Classify_new_working(doc_name, incoming_hash,
                                              LookupRaised(doc_name), FALSE)
    /\ build_i' = NextDoc(build_i + 1)
    /\ UNCHANGED <<vector_store, summary_store, file_name, documents, run, main_pc, wpc,
                   werr, results, success_count, fail_count, ret, task_i, phase, log,
                   add_calls, delete_calls, store0, repeat_run, retry_partial, sheet, output, xpc>>

\* update_index, lines 76-84: nothing to index returns 0, else every task is
\* submitted to the thread pool
dispatch_finetuning ==
    /\ main_pc = "build"
    /\ build_i > NumDocs
    /\ IF tasks = <<>>
       THEN /\ main_pc' = "done"
            /\ ret' = NothingToIndex
            /\ wpc' = wpc
       ELSE /\ main_pc' = "pool"
            /\ ret' = ret
            /\ wpc' = [p \in Paths |-> IF p \in TaskDocs THEN "pending" ELSE "none"]
    /\ UNCHANGED <<vector_store, summary_store, file_name, _cached_hashes, documents, run,
                   build_i, tasks, existing_hash, lookup_raised, werr, results,
                   success_count, fail_count, task_i, phase, log, faults, clean, add_calls,
                   delete_calls, store0, repeat_run, retry_partial, sheet, output, xpc>>

\* _prepare_nodes, line 27: the four-way unpacking of the task tuple, outside
\* the try block
Unpacks_1110(task_tuple) == Len(task_tuple) = 4

\* _prepare_nodes, lines 27-50: unpack the task, chunk, attach the metadata,
\* embed and vector_store.add; an exception inside the try block ends the task
\* with str(e), which is empty for an exception raised without a message
_prepare_nodes_vector_1110(p) ==
    /\ main_pc = "pool"
    /\ wpc[p] = "pending"
    /\ \/ /\ ~Unpacks_1110(tasks[TaskOf(p)])
          /\ wpc' = [wpc EXCEPT ![p] = "crashed"]
          /\ UNCHANGED <<vector_store, werr, faults, clean, add_calls>>
       \/ /\ Unpacks_1110(tasks[TaskOf(p)])
          /\ faults < MaxFaults
          /\ \E e \in {"vector_store.add", ""} : werr' = [werr EXCEPT ![p] = e]
          /\ add_calls' = add_calls + 1
          /\ wpc' = [wpc EXCEPT ![p] = "done"]
          /\ faults' = faults + 1 /\ clean' = FALSE
          /\ UNCHANGED vector_store
       \/ /\ Unpacks_1110(tasks[TaskOf(p)])
          /\ vector_store' = StoreAdd(vector_store, p, documents[p])
          /\ add_calls' = add_calls + 1
          /\ wpc' = [wpc EXCEPT ![p] = "summary"]
          /\ UNCHANGED <<werr, faults, clean>>
    /\ UNCHANGED <<summary_store, file_name, _cached_hashes, documents, run, main_pc,
                   build_i, tasks, existing_hash, lookup_raised, results, success_count,
                   fail_count, ret, task_i, phase, log, delete_calls, store0,
                   repeat_run, retry_partial, sheet, output, xpc>>

\* _prepare_nodes, lines 52-70: generate and embed the summary,
\* summary_store.add and return; the cache is not touched
_prepare_nodes_summary_1110(p) ==
    /\ main_pc = "pool"
    /\ wpc[p] = "summary"
    /\ \/ /\ faults < MaxFaults
          /\ \E e \in {"summary_store.add", ""} : werr' = [werr EXCEPT ![p] = e]
          /\ add_calls' = add_calls + 1
          /\ wpc' = [wpc EXCEPT ![p] = "done"]
          /\ faults' = faults + 1 /\ clean' = FALSE
          /\ UNCHANGED summary_store
       \/ /\ summary_store' = StoreAdd(summary_store, p, documents[p])
          /\ add_calls' = add_calls + 1
          /\ wpc' = [wpc EXCEPT ![p] = "done"]
          /\ UNCHANGED <<werr, faults, clean>>
    /\ UNCHANGED <<vector_store, file_name, _cached_hashes, documents, run, main_pc,
                   build_i, tasks, existing_hash, lookup_raised, results, success_count,
                   fail_count, ret, task_i, phase, log, delete_calls, store0,
                   repeat_run, retry_partial, sheet, output, xpc>>

\* update_index, lines 83-106: wait for every future; f.result() re-raises the
\* exception of a worker that raised, which leaves update_index once the pool
\* has shut down; otherwise count the results and return success_count
collect_finetuning ==
    /\ main_pc = "pool"
    /\ \A p \in TaskDocs : wpc[p] \in {"done", "crashed"}
    /\ IF \E p \in TaskDocs : wpc[p] = "crashed"
       THEN /\ main_pc' = "raised"
            /\ UNCHANGED <<results, success_count, fail_count, ret>>
       ELSE /\ results' = ResultsOf(tasks)
            /\ success_count' = CountSucceeded(ResultsOf(tasks))
            /\ fail_count' = CountFailed(ResultsOf(tasks))
            /\ ret' = CountSucceeded(ResultsOf(tasks))
            /\ main_pc' = "done"
    /\ UNCHANGED <<vector_store, summary_store, file_name, _cached_hashes, documents, run,
                   build_i, tasks, existing_hash, lookup_raised, wpc, werr,
                   task_i, phase, log, faults, clean, add_calls, delete_calls, store0,
                   repeat_run, retry_partial, sheet, output, xpc>>

\* the store a new IndexManager connects to may hold the fragments of files
\* indexed by an earlier process (none of them, or all)
IndexedBefore(I) == [k \in Keys |-> IF k[1] \in I /\ k[2] = 1 THEN 1 ELSE 0]

InitFt ==
    /\ InitCommon
    /\ ParserIdle
    /\ \E I \in {{}, Paths} :
        /\ vector_store = IndexedBefore(I)
        /\ summary_store = IndexedBefore(I)
        /\ store0 = <<IndexedBefore(I), IndexedBefore(I)>>
    /\ file_name = [p \in Paths |-> p]

NextFt ==
    \/ update_index_finetuning
    \/ _build_tasks_new_working
    \/ dispatch_finetuning
    \/ \E p \in Paths : _prepare_nodes_vector_1110(p)
    \/ \E p \in Paths : _prepare_nodes_summary_1110(p)
    \/ collect_finetuning

SpecFt == InitFt /\ [][NextFt]_vars

\* ======================================================================
\* SpecSeq: new_storing.py (_build_tasks, update_index, _delete_document,
\*          _save_document_embeddings), with _get_file_hash_from_store and
\*          the caller of update_index as in new_test_1107.py
\* ======================================================================

\* the largest hash value any file has had so far
KnownMaxAll == CHOOSE h \in {None} \cup Hashes :
                  /\ \A p \in Paths : KnownMax(p) <= h
                  /\ h = None \/ \E p \in Paths : KnownMax(p) = h

\* new_test_1107.py update_index, lines 179-180, entering _build_tasks of
\* new_storing.py, lines 66-69, which starts from an empty _cached_hashes
update_index_new_storing ==
    /\ Idle
    /\ run < MaxRunsSeq
    /\ \E S \in {{}, Paths} : \E docs \in [S -> Hashes] :
        /\ \A p \in S : \/ docs[p] <= KnownMaxAll + 1
                        \/ \E q \in S : q < p /\ docs[p] <= docs[q] + 1
        /\ ResetRun(docs)
        /\ build_i' = IF S = {} THEN NumDocs + 1 ELSE CHOOSE p \in S : \A q \in S : p <= q
    /\ main_pc' = "build"
    /\ ret' = None
    /\ _cached_hashes' = EmptyDict
    /\ UNCHANGED <<vector_store, summary_store, file_name>>

\* new_test_1107.py _get_file_hash_from_store, lines 78-89, when the retrieval
\* does not raise: the file_hash of the first retrieved node whose file_name
\* matches, any of the stored ones; None when there is none
LookupByNameReturns(name) ==
    LET mine == {h \in Hashes : \E p \in Paths : file_name[p] = name /\ vector_store[<<p, h>>] > 0}
    IN IF mine = {} THEN {None} ELSE mine

\* _build_tasks, lines 81-86: the task tuple the hash comparison appends
Classify_new_storing(file_path, incoming_hash, existing) ==
    IF existing = None THEN <<  <<file_path, incoming_hash, "new">>  >>
    ELSE IF existing # incoming_hash THEN <<  <<file_path, incoming_hash, "overwrite">>  >>
    ELSE <<>>

\* _build_tasks, lines 71-86: one iteration of the loop
_build_tasks_new_storing ==
    /\ main_pc = "build"
    /\ build_i <= NumDocs
    /\ LET file_path == build_i
           name == file_name[file_path]
           incoming_hash == documents[file_path]
           cached == DictGet(_cached_hashes, name)
       IN \/ /\ cached # None
             /\ existing_hash' = DictSet(existing_hash, file_path, cached)
             /\ tasks' = tasks \o Classify_new_storing(file_path, incoming_hash, cached)
             /\ UNCHANGED <<_cached_hashes, lookup_raised, faults, clean>>
          \/ /\ cached = None
             /\ \/ \E found \in LookupByNameReturns(name) :
                      /\ existing_hash' = DictSet(existing_hash, file_path, found)
                      /\ _cached_hashes' = DictSet(_cached_hashes, name, found)
                      /\ tasks' = tasks \o Classify_new_storing(file_path, incoming_hash, found)
                      /\ UNCHANGED <<lookup_raised, faults, clean>>
                \/ /\ faults < MaxFaults
                   /\ faults' = faults + 1 /\ clean' = FALSE
                   /\ lookup_raised' = lookup_raised \cup {file_path}
                   /\ existing_hash' = DictSet(existing_hash, file_path, LookupRaised(file_path))
                   /\ _cached_hashes' = DictSet(_cached_hashes, name, LookupRaised(file_path))
                   /\ tasks' = tasks \o
                         Classify_new_storing(file_path, incoming_hash, LookupRaised(file_path))
    /\ build_i' = NextDoc(build_i + 1)
    /\ UNCHANGED <<vector_store, summary_store, file_name, documents, run, main_pc, wpc,
                   werr, results, success_count, fail_count, ret, task_i, phase, log,
                   add_calls, delete_calls, store0, repeat_run, retry_partial, sheet, output, xpc>>

\* a variant of FirstPhase that saves without deleting first
FirstPhase_save(action) == "vector_add"

\* update_index, lines 95-101: the first store operation of a task
FirstPhase(action) == IF action = "overwrite" THEN "vector_delete" ELSE "vector_add"

\* update_index, line 92: the for loop moves to task i, or ends after the last
PhaseAt(i) == IF i > Len(tasks) THEN "end" ELSE FirstPhase(tasks[i][3])

\* update_index, line 92: the loop is entered with the tasks _build_tasks returned
enter_loop_new_storing ==
    /\ main_pc = "build"
    /\ build_i > NumDocs
    /\ main_pc' = "update"
    /\ task_i' = 1
    /\ phase' = PhaseAt(1)
    /\ UNCHANGED <<vector_store, summary_store, file_name, _cached_hashes, documents, run,
                   build_i, tasks, existing_hash, lookup_raised, wpc, werr, results,
                   success_count, fail_count, ret, log, faults, clean, add_calls,
                   delete_calls, store0, repeat_run, retry_partial, sheet, output, xpc>>

\* the nodes a delete pass looks for: those whose metadata file_name matches
Matching(store, name) == {k \in Keys : file_name[k[1]] = name /\ store[k] > 0}

\* a delete pass that ran to its end: no node with that file_name is left
DeleteAll(store, name) == [k \in Keys |-> IF file_name[k[1]] = name THEN 0 ELSE store[k]]

\* a delete pass that raised (the retrieval, or one store.delete): the nodes
\* deleted before the exception are gone, at least one matching node is left
DeleteSome(store, name) ==
    LET M == Matching(store, name)
    IN {[k \in Keys |-> IF k \in M THEN f[k] ELSE store[k]] :
            f \in {g \in [M -> 0..run] : /\ \A k \in M : g[k] <= store[k]
                                         /\ M = {} \/ \E k \in M : g[k] > 0}}

\* _delete_document, lines 4-15: the vector_store pass; an exception is logged
_delete_document_vector ==
    /\ main_pc = "update"
    /\ phase = "vector_delete"
    /\ LET name == file_name[tasks[task_i][1]]
       IN \/ /\ vector_store' = DeleteAll(vector_store, name)
             /\ log' = Append(log, <<task_i, "vector_delete", "ok">>)
             /\ UNCHANGED <<faults, clean>>
          \/ /\ faults < MaxFaults
             /\ faults' = faults + 1 /\ clean' = FALSE
             /\ vector_store' \in DeleteSome(vector_store, name)
             /\ log' = Append(log, <<task_i, "vector_delete", "failed">>)
    /\ delete_calls' = delete_calls + 1
    /\ phase' = "summary_delete"
    /\ UNCHANGED <<summary_store, file_name, _cached_hashes, documents, run, main_pc,
                   build_i, tasks, existing_hash, lookup_raised, wpc, werr, results,
                   success_count, fail_count, ret, task_i, add_calls, store0, repeat_run, retry_partial, sheet, output, xpc>>

\* _delete_document, lines 18-29: the summary_store pass; an exception is logged
_delete_document_summary ==
    /\ main_pc = "update"
    /\ phase = "summary_delete"
    /\ LET name == file_name[tasks[task_i][1]]
       IN \/ /\ summary_store' = DeleteAll(summary_store, name)
             /\ log' = Append(log, <<task_i, "summary_delete", "ok">>)
             /\ UNCHANGED <<faults, clean>>
          \/ /\ faults < MaxFaults
             /\ faults' = faults + 1 /\ clean' = FALSE
             /\ summary_store' \in DeleteSome(summary_store, name)
             /\ log' = Append(log, <<task_i, "summary_delete", "failed">>)
    /\ delete_calls' = delete_calls + 1
    /\ phase' = "vector_add"
    /\ UNCHANGED <<vector_store, file_name, _cached_hashes, documents, run, main_pc,
                   build_i, tasks, existing_hash, lookup_raised, wpc, werr, results,
                   success_count, fail_count, ret, task_i, add_calls, store0, repeat_run, retry_partial, sheet, output, xpc>>

\* _save_document_embeddings, lines 34-44: split, embed, vector_store.add; an
\* exception is not caught here nor in update_index
_save_document_embeddings_vector ==
    /\ main_pc = "update"
    /\ phase = "vector_add"
    /\ LET file_path == tasks[task_i][1]
       IN \/ /\ vector_store' = StoreAdd(vector_store, file_path, documents[file_path])
             /\ log' = Append(log, <<task_i, "vector_add", "ok">>)
             /\ phase' = "summary_add"
             /\ UNCHANGED <<main_pc, faults, clean>>
          \/ /\ faults < MaxFaults
             /\ faults' = faults + 1 /\ clean' = FALSE
             /\ log' = Append(log, <<task_i, "vector_add", "failed">>)
             /\ main_pc' = "raised"
             /\ UNCHANGED <<vector_store, phase>>
    /\ add_calls' = add_calls + 1
    /\ UNCHANGED <<summary_store, file_name, _cached_hashes, documents, run,
                   build_i, tasks, existing_hash, lookup_raised, wpc, werr, results,
                   success_count, fail_count, ret, task_i, delete_calls, store0, repeat_run, retry_partial, sheet, output, xpc>>

\* _save_document_embeddings, lines 47-62: summarize, embed, summary_store.add,
\* then update_index moves to the next task; an exception is not caught
_save_document_embeddings_summary ==
    /\ main_pc = "update"
    /\ phase = "summary_add"
    /\ LET file_path == tasks[task_i][1]
       IN \/ /\ summary_store' = StoreAdd(summary_store, file_path, documents[file_path])
             /\ log' = Append(log, <<task_i, "summary_add", "ok">>)
             /\ task_i' = task_i + 1
             /\ phase' = PhaseAt(task_i + 1)
             /\ UNCHANGED <<main_pc, faults, clean>>
          \/ /\ faults < MaxFaults
             /\ faults' = faults + 1 /\ clean' = FALSE
             /\ log' = Append(log, <<task_i, "summary_add", "failed">>)
             /\ main_pc' = "raised"
             /\ UNCHANGED <<summary_store, task_i, phase>>
    /\ add_calls' = add_calls + 1
    /\ UNCHANGED <<vector_store, file_name, _cached_hashes, documents, run,
                   build_i, tasks, existing_hash, lookup_raised, wpc, werr, results,
                   success_count, fail_count, ret, delete_calls, store0, repeat_run, retry_partial, sheet, output, xpc>>

\* update_index, line 103: the loop is over, the count of tasks is logged
update_index_end_new_storing ==
    /\ main_pc = "update"
    /\ phase = "end"
    /\ main_pc' = "done"
    /\ UNCHANGED <<vector_store, summary_store, file_name, _cached_hashes, documents, run,
                   build_i, tasks, existing_hash, lookup_raised, wpc, werr, results,
                   success_count, fail_count, ret, task_i, phase, log, faults, clean,
                   add_calls, delete_calls, store0, repeat_run, retry_partial, sheet, output, xpc>>

\* metadata["file_name"] of the files: two paths may carry the same name
FileNamings == {f \in [Paths -> Paths] :
                   \A p \in Paths : f[p] = 1 \/ \E q \in Paths : q < p /\ f[p] <= f[q] + 1}

\* the stores are empty, or hold every file as indexed by an earlier process
InitSeq ==
    /\ InitCommon
    /\ ParserIdle
    /\ \E I \in {{}, Paths} :
        /\ vector_store = IndexedBefore(I)
        /\ summary_store = IndexedBefore(I)
        /\ store0 = <<IndexedBefore(I), IndexedBefore(I)>>
    /\ file_name \in FileNamings

NextSeq ==
    \/ update_index_new_storing
    \/ _build_tasks_new_storing
    \/ enter_loop_new_storing
    \/ _delete_document_vector
    \/ _delete_document_summary
    \/ _save_document_embeddings_vector
    \/ _save_document_embeddings_summary
    \/ update_index_end_new_storing

SpecSeq == InitSeq /\ [][NextSeq]_vars

\* SpecBuild: _build_tasks of new_storing.py on a store that holds any part
\* of the files, up to the point where the loop over the tasks is entered
InitBuild ==
    /\ InitCommon
    /\ ParserIdle
    /\ \E I \in SUBSET Paths :
        /\ vector_store = IndexedBefore(I)
        /\ summary_store = IndexedBefore(I)
        /\ store0 = <<IndexedBefore(I), IndexedBefore(I)>>
    /\ file_name \in FileNamings

NextBuild ==
    \/ update_index_new_storing
    \/ _build_tasks_new_storing
    \/ enter_loop_new_storing

SpecBuild == InitBuild /\ [][NextBuild]_vars

\* ======================================================================
\* ExcelParser: what every parser specification shares
\* ======================================================================

ivars == <<vector_store, summary_store, file_name, _cached_hashes, documents, run,
           main_pc, build_i, tasks, existing_hash, lookup_raised, wpc, werr, results,
           success_count, fail_count, ret, task_i, phase, log, faults, clean, add_calls,
           delete_calls, store0, repeat_run, retry_partial>>

\* no IndexManager is at work while a parser method is called on its own
IndexIdle ==
    /\ InitCommon
    /\ vector_store = EmptyStore
    /\ summary_store = EmptyStore
    /\ store0 = <<EmptyStore, EmptyStore>>
    /\ file_name = [p \in Paths |-> p]

\* ======================================================================
\* SpecMerge: excel_parser.py, ExcelParser._sheet_to_dataframe, lines 79-99
\* ======================================================================

\* sheet.max_row, sheet.max_column
GridRows == 2
GridCols == 2
\* cells of the sheet that hold a value; entries of sheet.merged_cells.ranges
MaxCells == 2
MaxMerged == 1

Cells == (1..GridRows) \X (1..GridCols)

\* two distinct cell values
CellValues == {1, 2}

\* cell.value of every cell of a sheet with at most MaxCells values
RawSheets ==
    {f \in [Cells -> {None} \cup CellValues] :
        Cardinality({c \in Cells : f[c] # None}) <= MaxCells}

\* a merged range of more than one cell
MergedRanges ==
    {R \in [min_row : 1..GridRows, max_row : 1..GridRows,
            min_col : 1..GridCols, max_col : 1..GridCols] :
        /\ R.min_row <= R.max_row
        /\ R.min_col <= R.max_col
        /\ <<R.min_row, R.min_col>> # <<R.max_row, R.max_col>>}

InRange(c, R) ==
    /\ R.min_row <= c[1] /\ c[1] <= R.max_row
    /\ R.min_col <= c[2] /\ c[2] <= R.max_col

\* sheet.merged_cells.ranges of a workbook: the ranges do not overlap
MergedLists ==
    {rs \in UNION {[1..n -> MergedRanges] : n \in 0..MaxMerged} :
        \A i, j \in 1..Len(rs) : i # j => ~\E c \in Cells : InRange(c, rs[i]) /\ InRange(c, rs[j])}

\* a variant of FillRange that writes the top-left value into every cell of the range
FillRange_overwrite(matrix, R, value) ==
    [c \in Cells |-> IF InRange(c, R) THEN value ELSE matrix[c]]

\* lines 96-99: the cells of one range that are None in the matrix get value
FillRange(matrix, R, value) ==
    [c \in Cells |-> IF InRange(c, R) /\ matrix[c] = None THEN value ELSE matrix[c]]

\* lines 88-99: the loop over the merged ranges, from range i on; value is read
\* from the sheet (line 95)
RECURSIVE FillMerged(_, _, _, _)
FillMerged(matrix, raw, ranges, i) ==
    IF i > Len(ranges) THEN matrix
    ELSE FillMerged(FillRange(matrix, ranges[i],
                              raw[<<ranges[i].min_row, ranges[i].min_col>>]),
                    raw, ranges, i + 1)

\* lines 79-99: build the matrix of cell values, then fill the merged ranges
_sheet_to_dataframe ==
    /\ xpc = "ready"
    /\ output' = FillMerged(sheet.cells, sheet.cells, sheet.merged, 1)
    /\ xpc' = "resolved"
    /\ UNCHANGED <<sheet, ivars>>

InitMerge ==
    /\ IndexIdle
    /\ \E raw \in RawSheets : \E rs \in MergedLists : sheet = [cells |-> raw, merged |-> rs]
    /\ output = None
    /\ xpc = "ready"

NextMerge == _sheet_to_dataframe

SpecMerge == InitMerge /\ [][NextMerge]_vars

\* ======================================================================
\* SpecRegions: new_excl.py, ExcelParser._detect_table_regions, lines 352-392
\* ======================================================================

\* max_row of the sheet; cells of the sheet that hold a value
SheetRows == 5
MaxData == 4

SheetCells == (1..SheetRows) \X (1..GridCols)

\* cell values: a text that str(value).strip() empties, and a text it does not
BlankTexts == {1}
DataTexts == {2}

\* line 376: cell.value is not None and str(cell.value).strip()
IsBlankValue(v) == v = None \/ v \in BlankTexts

\* cell.value of every cell of a sheet with at most MaxData values
PopulatedSets == {T \in SUBSET SheetCells : Cardinality(T) <= MaxData}

RegionSheet(S, g) == [c \in SheetCells |-> IF c \in S THEN g[c] ELSE None]

\* a variant of RowIsBlank that looks at the first column only
RowIsBlank_first(cells, row_idx, min_col, max_col) ==
    IsBlankValue(cells[<<row_idx, min_col>>])

\* lines 372-378: no cell of the row in [min_col, max_col] holds a value
RowIsBlank(cells, row_idx, min_col, max_col) ==
    \A col_idx \in min_col..max_col : IsBlankValue(cells[<<row_idx, col_idx>>])

\* lines 370-387: the loop from row_idx on, with current_start_row and the
\* table_regions appended so far
RECURSIVE DetectLoop(_, _, _, _, _, _, _)
DetectLoop(cells, row_idx, max_row, min_col, max_col, current_start_row, table_regions) ==
    IF row_idx > max_row + 1 THEN table_regions
    ELSE IF row_idx <= max_row /\ ~RowIsBlank(cells, row_idx, min_col, max_col)
         THEN DetectLoop(cells, row_idx + 1, max_row, min_col, max_col,
                         IF current_start_row = None THEN row_idx ELSE current_start_row,
                         table_regions)
         ELSE IF current_start_row # None
              THEN DetectLoop(cells, row_idx + 1, max_row, min_col, max_col, None,
                              Append(table_regions,
                                     <<current_start_row, row_idx - 1, min_col, max_col>>))
              ELSE DetectLoop(cells, row_idx + 1, max_row, min_col, max_col, None,
                              table_regions)

\* line 390: the filter r[1] - r[0] >= 0
KeepRegions(table_regions) == SelectSeq(table_regions, LAMBDA r : r[2] - r[1] >= 0)

\* lines 367-392
_detect_table_regions ==
    /\ xpc = "ready"
    /\ output' = KeepRegions(DetectLoop(sheet.cells, sheet.min_row, sheet.max_row,
                                        sheet.min_col, sheet.max_col, None, <<>>))
    /\ xpc' = "detected"
    /\ UNCHANGED <<sheet, ivars>>

InitRegions ==
    /\ IndexIdle
    /\ \E S \in PopulatedSets : \E g \in [S -> BlankTexts \cup DataTexts] :
          sheet = [cells |-> RegionSheet(S, g), min_row |-> 1, max_row |-> SheetRows,
                   min_col |-> 1, max_col |-> GridCols]
    /\ output = None
    /\ xpc = "ready"

NextRegions == _detect_table_regions

SpecRegions == InitRegions /\ [][NextRegions]_vars

\* ======================================================================
\* SpecUsed: new_excl.py, ExcelParser._get_used_range (lines 157-182) and the
\* region detection of _extract_tables_with_vision (lines 199-204)
\* ======================================================================

\* a cell value _get_used_range counts, were every value that is not None
\* counted
IsUsedValue_notnone(v) == v # None

\* line 170: cell.value is not None and str(cell.value).strip()
IsUsedValue(v) == v # None /\ v \notin BlankTexts

MinOf(S) == CHOOSE m \in S : \A x \in S : m <= x

\* the largest element of a set of numbers, 0 for the empty set
MaxOf(S) == IF S = {} THEN 0 ELSE CHOOSE m \in S : \A x \in S : x <= m

\* lines 162-182: (min_row, max_row, min_col, max_col) over the counted cells,
\* <<>> standing for None
GetUsedRange(cells) ==
    LET used == {c \in SheetCells : IsUsedValue(cells[c])}
        rows == {c[1] : c \in used}
        cols == {c[2] : c \in used}
    IN  IF used = {} THEN <<>>
        ELSE <<MinOf(rows), MaxOf(rows), MinOf(cols), MaxOf(cols)>>

_get_used_range ==
    /\ xpc = "ready"
    /\ output' = [used_range |-> GetUsedRange(sheet.cells),
                  table_regions |-> <<>>, fallback |-> FALSE]
    /\ xpc' = "ranged"
    /\ UNCHANGED <<sheet, ivars>>

\* lines 199-204: the regions detected inside the used range, and the whole
\* range as one table when there is none; convert_sheet_to_markdown returns
\* before the call when the used range is None (lines 107-115)
_extract_tables_with_vision ==
    /\ xpc = "ranged"
    /\ output.used_range # <<>>
    /\ LET u == output.used_range
           table_regions == KeepRegions(DetectLoop(sheet.cells, u[1], u[2], u[3], u[4],
                                                   None, <<>>))
       IN  output' = [output EXCEPT
                        !.table_regions = IF table_regions = <<>> THEN <<u>>
                                          ELSE table_regions,
                        !.fallback = (table_regions = <<>>)]
    /\ xpc' = "regions"
    /\ UNCHANGED <<sheet, ivars>>

InitUsed ==
    /\ IndexIdle
    /\ \E S \in PopulatedSets : \E g \in [S -> BlankTexts \cup DataTexts] :
          sheet = [cells |-> RegionSheet(S, g)]
    /\ output = None
    /\ xpc = "ready"

NextUsed == _get_used_range \/ _extract_tables_with_vision

SpecUsed == InitUsed /\ [][NextUsed]_vars

\* ======================================================================
\* SpecTable: excel_clau.py, ExcelParser._extract_table_to_markdown, lines 69-136
\* ======================================================================

\* columns of the table region, rows below its first row
TableCols == 3
TableDataRows == 2

TableCells == (1..(TableDataRows + 1)) \X (1..TableCols)

\* cell.value of a cell without a value
NoValue == "<None>"

\* cell values of the first row of the region, and of the rows below it
HeaderTexts == {NoValue, " ", "Name", "Age", "Unnamed: 1"}
BodyTexts == {"x"}

\* lines 86-88: "" for None, else str(value).strip() (no newline or pipe in the texts)
CleanValue(v) == IF v \in {NoValue, " "} THEN "" ELSE v

\* line 105: header.startswith('Unnamed')
StartsWithUnnamed(header) == header \in {"Unnamed: 1"}

\* lines 81-93: the cleaned rows of the region from row_idx on, without the
\* rows that are empty
RECURSIVE ReadRows(_, _)
ReadRows(cells, row_idx) ==
    IF row_idx > TableDataRows + 1 THEN <<>>
    ELSE LET row_data == [col_idx \in 1..TableCols |-> CleanValue(cells[<<row_idx, col_idx>>])]
         IN (IF \E col_idx \in 1..TableCols : row_data[col_idx] # ""
             THEN <<row_data>> ELSE <<>>) \o ReadRows(cells, row_idx + 1)

\* line 109: some row below the first one has a value in column idx
HasDataBelow(rows_data, idx) == \E row_idx \in 2..Len(rows_data) : rows_data[row_idx][idx] # ""

\* lines 103-111: valid_col_indices, in column order (the columns are numbered
\* from 1 here, from 0 in the code)
ValidCols(rows_data) ==
    SelectSeq([idx \in 1..TableCols |-> idx],
              LAMBDA idx : \/ (rows_data[1][idx] # "" /\ ~StartsWithUnnamed(rows_data[1][idx]))
                           \/ HasDataBelow(rows_data, idx))

\* line 111: the header kept for a column that is valid only by its data
PlaceholderHeader(header, idx) == IF header # "" THEN header ELSE "Column " \o ToString(idx)

\* lines 103-111: filtered_headers
FilteredHeaders(rows_data) ==
    LET valid == ValidCols(rows_data)
    IN [k \in 1..Len(valid) |->
           IF rows_data[1][valid[k]] # "" /\ ~StartsWithUnnamed(rows_data[1][valid[k]])
           THEN rows_data[1][valid[k]]
           ELSE PlaceholderHeader(rows_data[1][valid[k]], valid[k])]

\* lines 118-123: the rows cut down to the valid columns, without the rows that
\* are empty after the cut
FilteredRows(rows_data, valid) ==
    SelectSeq([r \in 1..Len(rows_data) |-> [k \in 1..Len(valid) |-> rows_data[r][valid[k]]]],
              LAMBDA row : \E k \in 1..Len(row) : row[k] # "")

\* lines 126-134: the markdown table has filtered_rows[0] as its header line and
\* the other filtered rows as its data lines; filtered_headers is not used
RenderTable(filtered_rows, filtered_headers) == filtered_rows

\* lines 77-136; the returned markdown is kept as its list of table lines, <<>>
\* standing for ""
_extract_table_to_markdown ==
    /\ xpc = "ready"
    /\ LET rows_data == ReadRows(sheet.cells, 1)
       IN output' = IF rows_data = <<>> THEN <<>>
                    ELSE IF ValidCols(rows_data) = <<>> THEN <<>>
                    ELSE RenderTable(FilteredRows(rows_data, ValidCols(rows_data)),
                                     FilteredHeaders(rows_data))
    /\ xpc' = "rendered"
    /\ UNCHANGED <<sheet, ivars>>

BodySets == {T \in SUBSET {c \in TableCells : c[1] > 1} : Cardinality(T) <= MaxData}

InitTable ==
    /\ IndexIdle
    /\ \E header \in [1..TableCols -> HeaderTexts] : \E S \in BodySets :
       \E g \in [S -> BodyTexts] :
          sheet = [cells |-> [c \in TableCells |->
                                 IF c[1] = 1 THEN header[c[2]]
                                 ELSE IF c \in S THEN g[c] ELSE NoValue]]
    /\ output = None
    /\ xpc = "ready"

NextTable == _extract_table_to_markdown

SpecTable == InitTable /\ [][NextTable]_vars

\* ======================================================================
\* SpecChart: excel_clau.py, ExcelParser._extract_chart_values (lines 330-351)
\*            and ExcelParser._parse_formula_reference (lines 416-461)
\* ======================================================================

\* rows of the worksheet a chart reference may point at; cached points of a series
ChartRows == 2
MaxPts == 1

\* column letters of the worksheet, by column number
Letters == <<"A", "B">>

ChartCells == (1..ChartRows) \X (1..Len(Letters))

\* values of the worksheet cells and of the cached points
ChartCellValues == {1, 2}
CachedValues == {8, 9}

\* a cell coordinate as the characters of the reference string
CoordText(row, col, absolute) ==
    IF absolute THEN <<"$", Letters[col], "$", ToString(row)>>
    ELSE <<Letters[col], ToString(row)>>

\* series.val.numRef.f for the reference ref: 'Sheet1!$A$1:$A$2', 'A1:A2', 'B1',
\* as its characters (the sheet name as one of them)
FormulaText(ref, qualified, absolute) ==
    (IF qualified THEN <<"Sheet1", "!">> ELSE <<>>)
    \o CoordText(ref.start_row, ref.start_col, absolute)
    \o (IF ref.single THEN <<>>
        ELSE <<":">> \o CoordText(ref.end_row, ref.end_col, absolute))

\* line 427: formula.split('!')[-1]
AfterSheetName(formula) ==
    LET marks == {i \in 1..Len(formula) : formula[i] = "!"}
    IN IF marks = {} THEN formula
       ELSE SubSeq(formula, (CHOOSE i \in marks : \A j \in marks : j <= i) + 1, Len(formula))

\* a variant of WithoutDollars that leaves the '$' markers in place
WithoutDollars_kept(formula) == formula

\* line 430: formula.replace('$', '')
WithoutDollars(formula) == SelectSeq(formula, LAMBDA ch : ch # "$")

\* openpyxl coordinate_to_tuple accepts a column letter followed by a row number
IsCoordinate(text) ==
    /\ Len(text) = 2
    /\ \E col \in 1..Len(Letters) : text[1] = Letters[col]
    /\ \E row \in 1..ChartRows : text[2] = ToString(row)

\* lines 441-442, 453: coordinate_to_tuple, (row, col)
CoordinateToTuple(text) ==
    <<CHOOSE row \in 1..ChartRows : text[2] = ToString(row),
      CHOOSE col \in 1..Len(Letters) : text[1] = Letters[col]>>

\* lines 445-446: the cells of the range, row by row
RangeCells(start, end) ==
    LET nrows == IF end[1] >= start[1] THEN end[1] - start[1] + 1 ELSE 0
        ncols == IF end[2] >= start[2] THEN end[2] - start[2] + 1 ELSE 0
    IN [k \in 1..(nrows * ncols) |->
           <<start[1] + ((k - 1) \div ncols), start[2] + ((k - 1) % ncols)>>]

\* lines 447-449, 454-456: the values of the cells that are not None
ReadValues(cells, coords) ==
    LET present == SelectSeq(coords, LAMBDA c : cells[c] # None)
    IN [k \in 1..Len(present) |-> cells[present[k]]]

\* lines 420-461: _parse_formula_reference; an exception of coordinate_to_tuple
\* is caught and leaves values empty
_parse_formula_reference(formula, cells) ==
    IF formula = <<>> THEN <<>>
    ELSE LET text == WithoutDollars(AfterSheetName(formula))
             colons == {i \in 1..Len(text) : text[i] = ":"}
         IN IF colons # {}
            THEN IF Cardinality(colons) # 1 THEN <<>>
                 ELSE LET at == CHOOSE i \in colons : TRUE
                          start == SubSeq(text, 1, at - 1)
                          end == SubSeq(text, at + 1, Len(text))
                      IN IF IsCoordinate(start) /\ IsCoordinate(end)
                         THEN ReadValues(cells, RangeCells(CoordinateToTuple(start),
                                                           CoordinateToTuple(end)))
                         ELSE <<>>
            ELSE IF IsCoordinate(text)
                 THEN ReadValues(cells, <<CoordinateToTuple(text)>>)
                 ELSE <<>>

\* lines 332-351: _extract_chart_values
ExtractChartValues(series, cells) ==
    IF ~series.has_val THEN <<>>
    ELSE IF series.pt # <<>> THEN series.pt
    ELSE IF series.f # <<>> THEN _parse_formula_reference(series.f, cells)
    ELSE <<>>

_extract_chart_values ==
    /\ xpc = "ready"
    /\ output' = ExtractChartValues(sheet.series, sheet.cells)
    /\ xpc' = "extracted"
    /\ UNCHANGED <<sheet, ivars>>

\* the references a chart series may carry
ChartRefs ==
    [start_row : 1..ChartRows, start_col : 1..Len(Letters),
     end_row : 1..ChartRows, end_col : 1..Len(Letters), single : BOOLEAN]

\* the series of a chart: without val, or with cached points and a reference
\* string that is missing, unparsable ('#REF!') or built from a reference
InitChart ==
    /\ IndexIdle
    /\ \E cells \in [ChartCells -> {None} \cup ChartCellValues] :
       \E pt \in UNION {[1..n -> CachedValues] : n \in 0..MaxPts} :
       \E ref \in ChartRefs : \E kind \in {"noval", "none", "broken", "plain", "absolute",
                                           "qualified", "qualified absolute"} :
          /\ kind \in {"noval", "none", "broken"}
                => (ref.single /\ ref.start_row = 1 /\ ref.start_col = 1)
          /\ ref.single => (ref.end_row = ref.start_row /\ ref.end_col = ref.start_col)
          /\ sheet = [cells |-> cells,
                      ref |-> ref,
                      kind |-> kind,
                      series |->
                         [has_val |-> kind # "noval",
                          pt |-> IF kind = "noval" THEN <<>> ELSE pt,
                          f |-> IF kind \in {"noval", "none"} THEN <<>>
                                ELSE IF kind = "broken" THEN <<"#REF", "!">>
                                ELSE FormulaText(ref, kind \in {"qualified", "qualified absolute"},
                                                 kind \in {"absolute", "qualified absolute"})]]
    /\ output = None
    /\ xpc = "ready"

NextChart == _extract_chart_values

SpecChart == InitChart /\ [][NextChart]_vars

\* ======================================================================
\* ExcelParser._process_sheet (src/excel_clau.py 520-573)
\*
\* A sheet markdown is modelled as the sequence of its pieces; a piece is
\* [kind, n, idx]: n is the number printed in the piece ('Chart n',
\* 'Figure n'), idx the position of the chart or image it was made from.
\* ======================================================================

\* bounds of the explored sheets: charts and images per sheet
MaxCharts == 2
MaxImages == 1

\* a chart whose series can be read ("pie"), a chart without series, and a
\* chart whose extraction raises inside the try of _convert_chart_to_markdown
ChartKinds == {"pie", "no series", "malformed"}

\* an image that is saved and described, one below min_image_size, and one
\* whose data cannot be opened
ImageKinds == {"picture", "small", "unreadable"}

SeqsUpTo(S, n) == UNION {[1..k -> S] : k \in 0..n}

Piece(kind, n, idx) == [kind |-> kind, n |-> n, idx |-> idx]

\* the result of a call: the value returned, or the exception that left it
Returned(md) == [raised |-> FALSE, md |-> md]
Raised == [raised |-> TRUE, md |-> <<>>]

\* lines 278-282: the except clause of _convert_chart_to_markdown with the
\* exception propagated instead of reported
ChartExcept_reraise(chart_count, idx) == Raised

\* lines 278-282: the except clause of _convert_chart_to_markdown appends
\* '_Error extracting chart data_' to the chart's markdown
ChartExcept(chart_count, idx) ==
    Returned(<<Piece("chart error", chart_count, idx)>>)

\* lines 138-284: _convert_chart_to_markdown, one piece per chart: the
\* '**Chart n**' block with its data table or its notice
_convert_chart_to_markdown(chart, chart_count, idx) ==
    CASE chart = "no series" -> Returned(<<Piece("chart no data", chart_count, idx)>>)
      [] chart = "pie"       -> Returned(<<Piece("chart", chart_count, idx)>>)
      [] chart = "malformed" -> ChartExcept(chart_count, idx)

\* lines 549-559: the loop over worksheet._charts; a chart whose conversion
\* raises is logged and skipped, and chart_count is not advanced
RECURSIVE ChartLoop(_, _, _, _)
ChartLoop(charts, chart_idx, chart_count, md_content) ==
    IF chart_idx > Len(charts) THEN md_content
    ELSE LET r == _convert_chart_to_markdown(charts[chart_idx], chart_count + 1, chart_idx)
         IN  IF r.raised
             THEN ChartLoop(charts, chart_idx + 1, chart_count, md_content)
             ELSE ChartLoop(charts, chart_idx + 1, chart_count + 1, md_content \o r.md)

\* lines 463-503: _extract_images_to_markdown; small images are skipped and
\* an image that raises is logged and skipped
RECURSIVE _extract_images_to_markdown(_, _)
_extract_images_to_markdown(images, img_idx) ==
    IF img_idx > Len(images) THEN <<>>
    ELSE (IF images[img_idx] = "picture"
          THEN <<Piece("figure", img_idx, img_idx)>>
          ELSE <<>>)
         \o _extract_images_to_markdown(images, img_idx + 1)

\* lines 520-573: _process_sheet; a Chartsheet has no calculate_dimension,
\* so _get_used_range (line 32) raises AttributeError on it
ProcessSheet(worksheet) ==
    IF worksheet.kind = "Chartsheet" THEN Raised
    ELSE IF ~worksheet.used_range THEN Returned(<<>>)
    ELSE Returned(
           ChartLoop(worksheet._charts, 1, 0,
                     <<Piece("# sheet_name", 0, 0)>>
                     \o (IF worksheet.table THEN <<Piece("table", 0, 0)>> ELSE <<>>))
           \o _extract_images_to_markdown(worksheet._images, 1))

_process_sheet ==
    /\ xpc = "ready"
    /\ output' = ProcessSheet(sheet)
    /\ xpc' = "processed"
    /\ UNCHANGED <<sheet, ivars>>

\* the worksheets: used_range is FALSE when _get_used_range returns None,
\* table is FALSE when _extract_table_to_markdown returns ""
Worksheets ==
    {w \in [kind : {"Worksheet"}, used_range : BOOLEAN, table : BOOLEAN,
            _charts : SeqsUpTo(ChartKinds, MaxCharts),
            _images : SeqsUpTo(ImageKinds, MaxImages)] :
        w.table => w.used_range}

Chartsheet ==
    [kind |-> "Chartsheet", used_range |-> FALSE, table |-> FALSE,
     _charts |-> <<"pie">>, _images |-> <<>>]

InitSheet ==
    /\ IndexIdle
    /\ sheet \in Worksheets \cup {Chartsheet}
    /\ output = None
    /\ xpc = "ready"

NextSheet == _process_sheet

SpecSheet == InitSheet /\ [][NextSheet]_vars

\* ======================================================================
\* ExcelParser.parse (src/excel_clau.py 605-662)
\*
\* sheet holds the workbook, output the locals macro_info, sheet_idx and
\* documents of parse; at xpc = "returned" output.documents is the list
\* parse returned.
\* ======================================================================

\* bound of the explored workbooks: sheets per workbook
MaxSheets == 2

Suffixes == {".xlsx", ".xlsm", ".xltm"}

\* the sheets of the explored workbooks: a Chartsheet, or a worksheet with
\* readable charts and no image
ParseSheets ==
    {w \in Worksheets :
        /\ w._images = <<>>
        /\ \A i \in DOMAIN w._charts : w._charts[i] = "pie"}
    \cup {Chartsheet}

\* lines 575-603: _extract_macro_info, the notice for a macro-enabled suffix
\* whose workbook has a vba_archive, "" otherwise
ExtractMacroInfo(wb) ==
    IF wb.suffix \in {".xlsm", ".xlam"} /\ wb.vba_archive
    THEN <<Piece("macro notice", 0, 0)>>
    ELSE <<>>

\* line 635: the macro notice is prepended to the markdown of the first sheet
TakesMacroInfo(sheet_idx) == sheet_idx = 0

\* line 639: a sheet markdown that is blank or only the sheet heading
HasNoContent(sheet_markdown) ==
    \/ sheet_markdown = <<>>
    \/ sheet_markdown = <<Piece("# sheet_name", 0, 0)>>

\* lines 614-623 and 660-662: the workbook is loaded and macro_info
\* extracted; parse returns [] when loading raises
parse_load ==
    /\ xpc = "ready"
    /\ IF sheet.loads
       THEN /\ output' = [macro_info |-> ExtractMacroInfo(sheet),
                          sheet_idx |-> 0,
                          documents |-> <<>>]
            /\ xpc' = "sheets"
       ELSE /\ output' = [macro_info |-> <<>>, sheet_idx |-> 0, documents |-> <<>>]
            /\ xpc' = "returned"
    /\ UNCHANGED <<sheet, ivars>>

\* lines 653-655: the except clause of the loop body, were it to give up
\* the documents collected so far
OnSheetError_reset(documents_) == <<>>

\* lines 653-655: the except clause of the loop body logs the error and
\* continues with the next sheet; documents is left as it is
OnSheetError(documents_) == documents_

\* lines 628-655: the body of the loop over wb.sheetnames for the sheet at
\* sheet_idx, giving the list documents after it
AfterSheet(wb, sheet_idx, macro_info, documents_) ==
    LET r == ProcessSheet(wb.sheets[sheet_idx + 1])
        sheet_markdown ==
            IF TakesMacroInfo(sheet_idx) /\ macro_info # <<>>
            THEN macro_info \o r.md
            ELSE r.md
    IN  IF r.raised THEN OnSheetError(documents_)
        ELSE IF HasNoContent(sheet_markdown) THEN documents_
        ELSE Append(documents_, [markdown |-> sheet_markdown,
                                 sheet_number |-> sheet_idx + 1])

\* lines 625-655: one iteration of the loop over wb.sheetnames
parse_sheet ==
    /\ xpc = "sheets"
    /\ output.sheet_idx < Len(sheet.sheets)
    /\ output' =
          [output EXCEPT
             !.sheet_idx = @ + 1,
             !.documents = AfterSheet(sheet, output.sheet_idx, output.macro_info, @)]
    /\ UNCHANGED <<sheet, xpc, ivars>>

\* lines 657-658: return documents
parse_return ==
    /\ xpc = "sheets"
    /\ output.sheet_idx = Len(sheet.sheets)
    /\ xpc' = "returned"
    /\ UNCHANGED <<sheet, output, ivars>>

\* the workbooks: one that cannot be loaded, and the loadable ones; a
\* vba_archive comes with a macro-enabled suffix
InitParse ==
    /\ IndexIdle
    /\ \E loads \in BOOLEAN : \E suffix \in Suffixes : \E vba_archive \in BOOLEAN :
       \E n \in 1..MaxSheets : \E sheets \in [1..n -> ParseSheets] :
          /\ vba_archive => suffix # ".xlsx"
          /\ ~loads => (suffix = ".xlsx" /\ ~vba_archive /\ n = 1 /\ sheets[1] = Chartsheet)
          /\ sheet = [loads |-> loads, suffix |-> suffix,
                      vba_archive |-> vba_archive, sheets |-> sheets]
    /\ output = None
    /\ xpc = "ready"

NextParse == parse_load \/ parse_sheet \/ parse_return

SpecParse == InitParse /\ [][NextParse]_vars

\* lines 605-662: the list parse returns for a workbook
RECURSIVE ParseFrom(_, _, _, _)
ParseFrom(wb, sheet_idx, macro_info, documents_) ==
    IF sheet_idx = Len(wb.sheets) THEN documents_
    ELSE ParseFrom(wb, sheet_idx + 1, macro_info,
                   AfterSheet(wb, sheet_idx, macro_info, documents_))

ParseDocuments(wb) ==
    IF wb.loads THEN ParseFrom(wb, 0, ExtractMacroInfo(wb), <<>>) ELSE <<>>

\* the documents of a list that do not belong to sheet number k
OtherSheets(documents_, k) ==
    LET NotOfK(d) == d.sheet_number # k IN SelectSeq(documents_, NotOfK)

\* the number of pieces of one kind in a markdown, and in a list of documents
RECURSIVE CountKind(_, _)
CountKind(md, kind) ==
    IF md = <<>> THEN 0
    ELSE (IF Head(md).kind = kind THEN 1 ELSE 0) + CountKind(Tail(md), kind)

RECURSIVE CountInDocuments(_, _)
CountInDocuments(docs, kind) ==
    IF docs = <<>> THEN 0
    ELSE CountKind(Head(docs).markdown, kind) + CountInDocuments(Tail(docs), kind)

\* ======================================================================
\* ExcelParser._convert_chart_to_markdown, category-based charts
\* (src/excel_clau.py 221-266)
\* ======================================================================

\* bounds of the explored charts: categories, series and values per series
MaxCats == 2
MaxSeries == 2
MaxVals == 2

CategoryLabels == {"a", "b"}
SeriesValues == {1, 2}

\* line 246: len(categories) if categories else the longest non-empty series
MaxLen(categories, all_series_values) ==
    IF categories # <<>> THEN Len(categories)
    ELSE MaxOf({Len(all_series_values[s]) : s \in DOMAIN all_series_values})

\* lines 253-256: the categories list the rows are labelled from
PaddedCategories(categories, max_len) ==
    IF categories = <<>> THEN [i \in 1..max_len |-> "Row " \o ToString(i)]
    ELSE IF Len(categories) < max_len
         THEN categories \o [i \in 1..(max_len - Len(categories)) |->
                                "Row " \o ToString(Len(categories) + i)]
         ELSE categories

\* lines 259-266: the data row of index idx (1-based here)
DataRow(categories, all_series_values, idx) ==
    <<IF idx <= Len(categories) THEN categories[idx] ELSE "">>
    \o [s \in DOMAIN all_series_values |->
           IF idx <= Len(all_series_values[s])
           THEN ToString(all_series_values[s][idx])
           ELSE ""]

\* lines 221-266: the data rows of a category-based chart, or the
\* '_No data could be extracted from chart_' notice
CategoryChartRows(categories, all_series_values) ==
    LET max_len == MaxLen(categories, all_series_values)
        padded == PaddedCategories(categories, max_len)
    IN  IF max_len = 0
        THEN [kind |-> "no data", rows |-> <<>>]
        ELSE [kind |-> "table",
              rows |-> [idx \in 1..max_len |-> DataRow(padded, all_series_values, idx)]]

_convert_chart_to_markdown_category ==
    /\ xpc = "ready"
    /\ output' = CategoryChartRows(sheet.categories, sheet.series)
    /\ xpc' = "converted"
    /\ UNCHANGED <<sheet, ivars>>

\* a chart with at least one series (line 226)
InitCategory ==
    /\ IndexIdle
    /\ \E categories \in SeqsUpTo(CategoryLabels, MaxCats) :
       \E n \in 1..MaxSeries :
       \E series \in [1..n -> SeqsUpTo(SeriesValues, MaxVals)] :
          sheet = [categories |-> categories, series |-> series]
    /\ output = None
    /\ xpc = "ready"

NextCategory == _convert_chart_to_markdown_category

SpecCategory == InitCategory /\ [][NextCategory]_vars

\* ======================================================================
\* SpecAgent: tmp.py, ChatbotAgent.run_agent_sync and process_agent
\* ======================================================================

\* the longest stream of updates one run_agent call yields in the model
MaxUpdates == 2

\* the largest max_retries process_agent is called with in the model
MaxAttempts == 2

\* line 106
BASE_BACKOFF_SECONDS == 2

\* the "status" of an update, lines 200-224 ("system_step" stands for every
\* status that is not "done": each only touches the placeholder)
Statuses == {"system_step", "done"}

\* line 51 and line 73: the None put on the queue, and the None process_agent returns
Sentinel == "None"

\* 2 ** n of line 239
RECURSIVE Pow2(_)
Pow2(n) == IF n = 0 THEN 1 ELSE 2 * Pow2(n - 1)

\* the `try: ... finally: q.put(None)` of _producer without the finally: the
\* sentinel only follows a run_agent that ended normally
FinallyPut_onsuccess(q_, raises) == IF raises THEN q_ ELSE Append(q_, Sentinel)

\* lines 50-51: the finally clause puts the sentinel whether run_agent ended
\* normally or raised
FinallyPut(q_, raises) == Append(q_, Sentinel)

\* lines 45 and 196: the state of one attempt before run_agent_sync is entered
FreshAttempt(attempt, slept) ==
    [attempt |-> attempt, q |-> <<>>, produced |-> <<>>, yielded |-> <<>>,
     producer |-> "none", consumer |-> "none", sentinels |-> 0, slept |-> slept,
     answer |-> "unset"]

\* process_agent lines 196-199 entering run_agent_sync lines 43-68: the queue is
\* created and the daemon thread that runs _producer is started; Thread.start()
\* raising (no thread can be started) is raised inside the try of line 197
run_agent_sync ==
    /\ xpc = "ready"
    /\ \E started \in BOOLEAN :
         IF started
         THEN /\ output' = [output EXCEPT !.producer = "running", !.consumer = "waiting"]
              /\ xpc' = "iterating"
         ELSE /\ output' = output
              /\ xpc' = "failed"
    /\ UNCHANGED <<sheet, ivars>>

\* _producer lines 48-49, in the background thread: run_agent yields one more
\* update and it is put on the queue
_producer_put ==
    /\ output.producer = "running"
    /\ Len(output.produced) < MaxUpdates
    /\ \E update \in Statuses :
         output' = [output EXCEPT !.q = Append(@, update),
                                  !.produced = Append(@, update)]
    /\ UNCHANGED <<sheet, xpc, ivars>>

\* _producer lines 48-51 and _run_loop lines 56-57: run_agent ends, normally or by
\* raising; the finally clause puts the sentinel; an exception then leaves
\* run_until_complete inside the daemon thread, where nothing catches it
_producer_finally ==
    /\ output.producer = "running"
    /\ \E raises \in BOOLEAN :
         LET q_ == FinallyPut(output.q, raises) IN
         output' = [output EXCEPT !.q = q_,
                                  !.sentinels = @ + (Len(q_) - Len(output.q)),
                                  !.producer = IF raises THEN "raised" ELSE "finished"]
    /\ UNCHANGED <<sheet, xpc, ivars>>

\* run_agent_sync lines 70-75 driving the loop of process_agent lines 199-228:
\* q.get() blocks until there is an item; the sentinel ends the generator and
\* process_agent returns None (lines 226-228); an update is yielded, and a "done"
\* update makes process_agent return its answer (lines 217-219)
run_agent_sync_get ==
    /\ xpc = "iterating"
    /\ output.consumer = "waiting"
    /\ output.q # <<>>
    /\ LET item == Head(output.q) IN
         IF item = Sentinel
         THEN /\ output' = [output EXCEPT !.q = Tail(@), !.consumer = "stopped",
                                          !.answer = Sentinel]
              /\ xpc' = "returned"
         ELSE IF item = "done"
         THEN /\ output' = [output EXCEPT !.q = Tail(@), !.yielded = Append(@, item),
                                          !.consumer = "closed", !.answer = "answer"]
              /\ xpc' = "returned"
         ELSE /\ output' = [output EXCEPT !.q = Tail(@), !.yielded = Append(@, item)]
              /\ xpc' = "iterating"
    /\ UNCHANGED <<sheet, ivars>>

\* process_agent lines 230-243: an exception raised inside the try is logged; a
\* further attempt follows a sleep of BASE_BACKOFF_SECONDS * 2 ** (attempt - 1),
\* the last attempt re-raises
process_agent_except ==
    /\ xpc = "failed"
    /\ IF output.attempt < sheet.max_retries
       THEN /\ output' = FreshAttempt(output.attempt + 1,
                             Append(output.slept,
                                    BASE_BACKOFF_SECONDS * Pow2(output.attempt - 1)))
            /\ xpc' = "ready"
       ELSE /\ output' = output
            /\ xpc' = "raised"
    /\ UNCHANGED <<sheet, ivars>>

InitAgent ==
    /\ IndexIdle
    /\ \E max_retries \in 1..MaxAttempts : sheet = [max_retries |-> max_retries]
    /\ output = FreshAttempt(1, <<>>)
    /\ xpc = "ready"

NextAgent ==
    \/ run_agent_sync
    \/ _producer_put
    \/ _producer_finally
    \/ run_agent_sync_get
    \/ process_agent_except

SpecAgent == InitAgent /\ [][NextAgent]_vars

\* the background thread runs until run_agent has ended, and q.get() returns
\* once the queue holds an item
SpecAgentFair ==
    /\ SpecAgent
    /\ WF_vars(_producer_finally)
    /\ WF_vars(run_agent_sync_get)

\* ======================================================================
\* Properties
\* ======================================================================

\* C1 (SpecSeq): in the sequential update_index, every add issued for an
\* "overwrite" task comes after the vector_store and the summary_store delete
\* pass of that task has ended (completed, or logged as failed), and no delete
\* pass of the task is issued after one of its adds.
C1_DeleteBeforeAdd ==
    \A j \in 1..Len(log) :
        (log[j][2] \in {"vector_add", "summary_add"} /\ tasks[log[j][1]][3] = "overwrite")
        => /\ \E a \in 1..(j - 1) : log[a][1] = log[j][1] /\ log[a][2] = "vector_delete"
           /\ \E b \in 1..(j - 1) : log[b][1] = log[j][1] /\ log[b][2] = "summary_delete"
           /\ \A k \in (j + 1)..Len(log) :
                 log[k][1] = log[j][1] => log[k][2] \notin {"vector_delete", "summary_delete"}

\* an "overwrite" task whose two adds have been issued
C1_Witness ==
    \E j \in 1..Len(log) :
        /\ log[j] = <<log[j][1], "summary_add", "ok">>
        /\ tasks[log[j][1]][3] = "overwrite"

\* C2 (SpecPar): once the worker of a document classified as changed has
\* returned without error, the vector store holds no fragment of that path
\* with a hash other than the incoming one.
C2_NoStaleAfterTask ==
    \A i \in 1..Len(tasks) :
        LET p == tasks[i][1]
        IN (tasks[i][3] = "modified" /\ wpc[p] = "done" /\ werr[p] = "None")
           => \A h \in Hashes : h # documents[p] => vector_store[<<p, h>>] = 0

\* C3 (SpecPar): a run in which vector_store.add raised for exactly one
\* document and nothing else raised ends with fail_count = 1 and
\* success_count = N - 1 for its N tasks, and the text and summary nodes of
\* each of the other N - 1 documents have been added.
C3_PartialFailureIsolation ==
    \A p \in Paths :
        (/\ main_pc = "done"
         /\ p \in TaskDocs
         /\ werr[p] = "vector_store.add"
         /\ \A q \in TaskDocs \ {p} : werr[q] = "None")
        => /\ fail_count = 1
           /\ success_count = Len(tasks) - 1
           /\ \A q \in TaskDocs \ {p} :
                 /\ vector_store[<<q, documents[q]>>] = store0[1][<<q, documents[q]>>] + 1
                 /\ summary_store[<<q, documents[q]>>] = store0[2][<<q, documents[q]>>] + 1

\* a finished run of at least two tasks, exactly one of which failed in vector_store.add
C3_Witness ==
    /\ main_pc = "done"
    /\ Len(tasks) >= 2
    /\ \E p \in TaskDocs : /\ werr[p] = "vector_store.add"
                           /\ \A q \in TaskDocs \ {p} : werr[q] = "None"

\* C4 (SpecFt): every update_index call ends by returning, with every task of
\* _build_tasks counted once: success_count + fail_count = number of tasks.
C4_NoEscape ==
    main_pc \in {"done", "raised"}
    => (main_pc = "done" /\ success_count + fail_count = Len(tasks))

\* C5 (SpecSeq): when the sequential update_index has ended, every task of the
\* list has been processed (a store operation has been issued for it), also
\* when an operation of an earlier task failed.
C5_RemainingProcessed ==
    main_pc \in {"done", "raised"}
    => \A i \in 1..Len(tasks) : \E j \in 1..Len(log) : log[j][1] = i

\* C6 (SpecFt): a run that reads the same documents as the run before it, which
\* returned with every document succeeded, issues no add and no delete call
\* (as long as no operation of the run itself raises).
C6_IdempotentReindex ==
    (repeat_run /\ clean) => (add_calls = 0 /\ delete_calls = 0)

C8_Classification ==
    /\ \A p \in DOMAIN documents :
          (documents[p] \in Hashes /\ (main_pc # "build" \/ p < build_i))
          => p \in DOMAIN existing_hash
    /\ \A p \in DOMAIN existing_hash :
          LET mine == {i \in 1..Len(tasks) : tasks[i][1] = p}
          IN /\ existing_hash[p] = None
                => (Cardinality(mine) = 1 /\ \A i \in mine : tasks[i][3] = "new")
             /\ existing_hash[p] \notin {None, documents[p]}
                => (Cardinality(mine) = 1 /\ \A i \in mine : tasks[i][3] = "overwrite")
             /\ existing_hash[p] = documents[p] => mine = {}

\* one run has classified a document unchanged and another one changed
C8_Witness ==
    /\ main_pc = "pool"
    /\ \E p, q \in DOMAIN existing_hash :
          /\ existing_hash[p] = documents[p] /\ p \notin TaskDocs
          /\ existing_hash[q] \notin {None, documents[q]} /\ q \in TaskDocs

\* C9 (SpecFt): a document whose store lookup raised has no existing hash and
\* has a "new" task in the list; it is neither dropped nor left as unchanged.
C9_FailedLookupIsNew ==
    \A p \in lookup_raised :
        /\ DictGet(existing_hash, p) = None
        /\ \E i \in 1..Len(tasks) : tasks[i] = <<p, documents[p], "new", FALSE>>

\* the lookup raised for a document that the store holds with the incoming hash
C9_Witness ==
    \E p \in lookup_raised : vector_store[<<p, documents[p]>>] > 0

\* C10 (SpecSeq): a delete pass of _delete_document for the document of a task
\* leaves the vector store and summary store fragments of every other
\* file_path as they were.
C10_DeleteOnlyOwnPath ==
    [][(main_pc = "update" /\ phase \in {"vector_delete", "summary_delete"})
        => \A k \in Keys :
              k[1] # tasks[task_i][1]
              => (vector_store'[k] = vector_store[k] /\ summary_store'[k] = summary_store[k])]_vars

\* C11 (SpecPar): every update_index run starts from an empty _cached_hashes,
\* so no hash memoized by an earlier run is consulted by a later one.
C11_CacheNotPersistent ==
    [][run' = run + 1 => _cached_hashes' = EmptyDict]_vars

\* C12 (SpecPar): a worker writes _cached_hashes only while it holds a lock or
\* while no other worker of the pool is running.
C12_CacheGuarded ==
    [][\A p \in Paths :
          (main_pc = "pool" /\ wpc[p] = "summary" /\ wpc'[p] = "done"
              /\ _cached_hashes' # _cached_hashes)
          => (CacheLockHeld(p) \/ OthersRunning(p) = {})]_vars

\* C13 (SpecFt): a document counted failed by the summary step after its text
\* nodes were added is, when the next run reads it unchanged and nothing
\* raises, given a task again and ends with its summary stored.
C13_RerunCorrectsPartial ==
    (main_pc = "done" /\ clean)
    => \A p \in retry_partial :
          /\ p \in TaskDocs
          /\ vector_store[<<p, documents[p]>>] > 0
          /\ summary_store[<<p, documents[p]>>] > 0

\* C14 (SpecMerge): in the resolved matrix, a cell that is null in the sheet
\* and lies in a merged range holds the value of the top-left cell of every
\* merged range it lies in; every other cell holds its raw value.
C14_MergedResolution ==
    xpc = "resolved"
    => \A c \in Cells :
          LET mine == {i \in 1..Len(sheet.merged) : InRange(c, sheet.merged[i])}
          IN IF sheet.cells[c] = None /\ mine # {}
             THEN \A i \in mine :
                     output[c] = sheet.cells[<<sheet.merged[i].min_row, sheet.merged[i].min_col>>]
             ELSE output[c] = sheet.cells[c]

\* a range with a value at its top-left cell and a null cell has been resolved,
\* next to a cell with a value of its own
C14_Witness ==
    /\ xpc = "resolved"
    /\ \E i \in 1..Len(sheet.merged) : \E c, d \in Cells :
          /\ InRange(c, sheet.merged[i])
          /\ sheet.cells[c] = None
          /\ sheet.cells[<<sheet.merged[i].min_row, sheet.merged[i].min_col>>] = 1
          /\ sheet.cells[d] = 2

C16_UnnamedElision ==
    (/\ xpc = "rendered"
     /\ sheet.cells[<<1, 1>>] = "Name"
     /\ sheet.cells[<<1, 2>>] = "Unnamed: 1"
     /\ sheet.cells[<<1, 3>>] = "Age"
     /\ \A c \in TableCells : c[2] > 3 => sheet.cells[c] = NoValue)
    => IF \A c \in TableCells : (c[1] > 1 /\ c[2] = 2) => CleanValue(sheet.cells[c]) = ""
       THEN output[1] = <<"Name", "Age">>
       ELSE output[1] = <<"Name", "Column 2", "Age">>

\* C17 as stated (SpecChart): with no cached points and a reference string, the
\* values are the literal values of all the cells of the referenced range.
C17_AllCellsOfRange ==
    (xpc = "extracted" /\ sheet.series.has_val /\ sheet.series.pt = <<>>
        /\ sheet.kind \notin {"none", "broken"})
    => LET inside == {c \in ChartCells :
                         /\ sheet.ref.start_row <= c[1] /\ c[1] <= sheet.ref.end_row
                         /\ sheet.ref.start_col <= c[2] /\ c[2] <= sheet.ref.end_col}
           rank(c) == 1 + Cardinality({d \in inside :
                                          d[1] < c[1] \/ (d[1] = c[1] /\ d[2] < c[2])})
       IN /\ Len(output) = Cardinality(inside)
          /\ \A c \in inside : output[rank(c)] = sheet.cells[c]

\* C17 (SpecChart): a series without val gives the empty list; non-empty cached
\* points are returned as they are; otherwise a reference string gives the
\* values of the cells of its range that hold a value, row by row, the cells
\* without a value being skipped (sheet qualifier and '$' stripped); otherwise,
\* or when the string is not a reference, the result is the empty list.
C17_ChartValuePriority ==
    xpc = "extracted"
    => IF ~sheet.series.has_val THEN output = <<>>
       ELSE IF sheet.series.pt # <<>> THEN output = sheet.series.pt
       ELSE IF sheet.kind \in {"none", "broken"} THEN output = <<>>
       ELSE LET inside == {c \in ChartCells :
                              /\ sheet.ref.start_row <= c[1] /\ c[1] <= sheet.ref.end_row
                              /\ sheet.ref.start_col <= c[2] /\ c[2] <= sheet.ref.end_col
                              /\ sheet.cells[c] # None}
                rank(c) == 1 + Cardinality({d \in inside :
                                               d[1] < c[1] \/ (d[1] = c[1] /\ d[2] < c[2])})
            IN /\ Len(output) = Cardinality(inside)
               /\ \A c \in inside : output[rank(c)] = sheet.cells[c]

\* an empty list of cached points with the reference 'Sheet1!$A$1:$A$2' over
\* two populated cells has given the two cell values
C17_Witness ==
    /\ xpc = "extracted"
    /\ sheet.series.pt = <<>>
    /\ sheet.series.f = <<"Sheet1", "!", "$", "A", "$", "1", ":", "$", "A", "$", "2">>
    /\ sheet.cells[<<1, 1>>] = 2 /\ sheet.cells[<<2, 1>>] = 1
    /\ output = <<2, 1>>

\* C18: a chart whose extraction raises does not abort its sheet:
\* _process_sheet returns, the chart is reported by an explicit error notice,
\* and the sheet's table, every other chart and every image are in the
\* returned markdown.
C18_MalformedChartIsolated ==
    (xpc = "processed" /\ sheet.kind = "Worksheet" /\ sheet.used_range
        /\ \E i \in DOMAIN sheet._charts : sheet._charts[i] = "malformed")
    => /\ ~output.raised
       /\ \A i \in DOMAIN sheet._charts :
             \E j \in DOMAIN output.md :
                /\ output.md[j].idx = i
                /\ output.md[j].kind =
                      (CASE sheet._charts[i] = "malformed" -> "chart error"
                         [] sheet._charts[i] = "pie" -> "chart"
                         [] sheet._charts[i] = "no series" -> "chart no data")
       /\ sheet.table => \E j \in DOMAIN output.md : output.md[j].kind = "table"
       /\ \A i \in DOMAIN sheet._images :
             sheet._images[i] = "picture"
                => \E j \in DOMAIN output.md :
                      output.md[j].kind = "figure" /\ output.md[j].idx = i

C18_Witness ==
    /\ xpc = "processed"
    /\ sheet.kind = "Worksheet" /\ sheet.table
    /\ sheet._charts = <<"malformed", "pie">>
    /\ sheet._images = <<"picture">>
    /\ output = Returned(<<Piece("# sheet_name", 0, 0), Piece("table", 0, 0),
                           Piece("chart error", 1, 1), Piece("chart", 2, 2),
                           Piece("figure", 1, 1)>>)

\* C19: for a loaded macro-enabled (.xlsm) workbook with a macro stream the
\* documents parse returns hold the macro notice exactly once, whatever the
\* number of sheets and whichever sheets are empty or fail, as long as one
\* sheet holds a table; for a workbook without a macro stream they hold none.
C19_MacroNoticeOnce ==
    (/\ xpc = "returned" /\ sheet.loads /\ sheet.suffix = ".xlsm"
     /\ \E i \in DOMAIN sheet.sheets :
           sheet.sheets[i].kind = "Worksheet" /\ sheet.sheets[i].table)
    => CountInDocuments(output.documents, "macro notice")
          = (IF sheet.vba_archive THEN 1 ELSE 0)

\* C20: for a workbook whose first sheet holds one table and one pie chart
\* and whose second sheet is empty, parse returns exactly 2 fragments, one
\* with the table and one with the chart, both from the first sheet.
C20_TwoFragments ==
    (/\ xpc = "returned" /\ sheet.loads /\ ~sheet.vba_archive
     /\ Len(sheet.sheets) = 2
     /\ sheet.sheets[1] = [kind |-> "Worksheet", used_range |-> TRUE, table |-> TRUE,
                           _charts |-> <<"pie">>, _images |-> <<>>]
     /\ sheet.sheets[2] = [kind |-> "Worksheet", used_range |-> FALSE, table |-> FALSE,
                           _charts |-> <<>>, _images |-> <<>>])
    => /\ Len(output.documents) = 2
       /\ \A i \in DOMAIN output.documents : output.documents[i].sheet_number = 1

\* C21 (SpecParse): no document of the list parse returns belongs to a sheet
\* without content (no table, no chart, no image), and the documents carry
\* the 1-based numbers of their sheets in workbook order.
C21_NoPlaceholderForEmptySheet ==
    (xpc = "returned" /\ sheet.loads)
    => /\ \A i \in DOMAIN output.documents :
             LET w == sheet.sheets[output.documents[i].sheet_number]
             IN  w.table \/ w._charts # <<>> \/ w._images # <<>>
       /\ \A i, j \in DOMAIN output.documents :
             i < j => output.documents[i].sheet_number < output.documents[j].sheet_number

\* C22 (SpecParse): when processing sheet k raises, the list parse returns
\* holds no document of sheet k, and its documents of the other sheets are,
\* in the same order, those parse returns for the workbook in which sheet k
\* is replaced by any sheet that does not fail.
C22_SheetFailureIsolated ==
    (xpc = "returned" /\ sheet.loads)
    => \A k \in DOMAIN sheet.sheets :
          ProcessSheet(sheet.sheets[k]).raised
          => /\ \A i \in DOMAIN output.documents : output.documents[i].sheet_number # k
             /\ \A w \in ParseSheets \ {Chartsheet} :
                   OtherSheets(ParseDocuments([sheet EXCEPT !.sheets[k] = w]), k)
                      = OtherSheets(output.documents, k)

C22_Witness ==
    /\ xpc = "returned"
    /\ Len(sheet.sheets) = 2
    /\ sheet.sheets[1].table /\ sheet.sheets[1]._charts = <<>>
    /\ sheet.sheets[2] = Chartsheet
    /\ ~sheet.vba_archive
    /\ output.documents = <<[markdown |-> <<Piece("# sheet_name", 0, 0), Piece("table", 0, 0)>>,
                             sheet_number |-> 1]>>

\* C23 (SpecParse): when the workbook cannot be opened, parse ends with an
\* error that reaches the caller, or at least with a result that no opened
\* workbook gives (here: no opened one-sheet workbook without macros).
C23_LoadFailureDistinguishable ==
    (xpc # "ready" /\ ~sheet.loads)
    => \/ xpc = "raised"
       \/ \A w \in ParseSheets :
             ParseDocuments([loads |-> TRUE, suffix |-> ".xlsx",
                             vba_archive |-> FALSE, sheets |-> <<w>>])
                # output.documents

\* C24 (SpecCategory): a category-based chart is rendered with as many data
\* rows as the maximum of the number of categories and of the number of
\* values of every series; rows beyond the categories are labelled 'Row i',
\* and a series without a value at a row has an empty cell there.
C24_RowCountIsMax ==
    xpc = "converted"
    => LET n == MaxOf({Len(sheet.categories)}
                      \cup {Len(sheet.series[s]) : s \in DOMAIN sheet.series})
       IN  /\ Len(output.rows) = n
           /\ \A i \in 1..n :
                 /\ i > Len(sheet.categories)
                       => output.rows[i][1] = "Row " \o ToString(i)
                 /\ \A s \in DOMAIN sheet.series :
                       i > Len(sheet.series[s]) => output.rows[i][s + 1] = ""

\* C25 (SpecTable): the first line of a rendered table is row 0 of the
\* region's non-empty rows cut down to the kept columns: the header row is
\* never dropped and no data row takes its place.
C25_HeaderIsRowZero ==
    (xpc = "rendered" /\ output # <<>>)
    => LET rows_data == ReadRows(sheet.cells, 1)
           valid == ValidCols(rows_data)
       IN  output[1] = [k \in 1..Len(valid) |-> rows_data[1][valid[k]]]

C27_ParallelEqualsSequential ==
    (main_pc = "done" /\ tasks # <<>>)
    => LET seq == SequentialRun([vector_store |-> store0[1],
                                 summary_store |-> store0[2],
                                 _cached_hashes |-> existing_hash,
                                 results |-> <<>>], tasks, 1, werr)
       IN  /\ vector_store = seq.vector_store
           /\ summary_store = seq.summary_store
           /\ \A p \in Paths : DictGet(_cached_hashes, p) = DictGet(seq._cached_hashes, p)
           /\ success_count = Cardinality({i \in DOMAIN seq.results : ~Truthy(seq.results[i][2])})
           /\ fail_count = Cardinality({i \in DOMAIN seq.results : Truthy(seq.results[i][2])})
           /\ ret = success_count

C27_Witness ==
    /\ main_pc = "done"
    /\ Len(tasks) = 2
    /\ run = 2
    /\ werr[tasks[1][1]] = "summary_store.add"
    /\ werr[tasks[2][1]] = "None"
    /\ success_count = 1 /\ fail_count = 1

\* C28 (SpecBuild): the existing hash _build_tasks compares the incoming hash
\* of a document with is a hash stored for that document's own file_path
\* (None when the store holds none), whatever the other documents of the
\* batch and of the store are; lookups that raise are left aside.
C28_ClassifiedByOwnPath ==
    \A p \in DOMAIN existing_hash :
       p \notin lookup_raised
       => LET own == {h \in Hashes : store0[1][<<p, h>>] > 0}
          IN  IF own = {} THEN existing_hash[p] = None ELSE existing_hash[p] \in own

\* C29: run_agent_sync terminates and loses nothing. The updates the consumer
\* loop has yielded, followed by the updates still on the queue, are at every
\* moment exactly the updates the producer obtained from run_agent, in
\* production order; the None sentinel is put once, behind the last update,
\* when run_agent has finished normally or raised; the consumer stops on it
\* having yielded every update; and a consumer waiting on the queue always
\* comes to an end.
C29_NothingLostAndTerminates ==
    /\ [](output.consumer \in {"waiting", "stopped"} =>
            LET updates == SelectSeq(output.q, LAMBDA item : item # Sentinel) IN
            /\ output.yielded \o updates = output.produced
            /\ output.sentinels = (IF output.producer \in {"finished", "raised"}
                                   THEN 1 ELSE 0)
            /\ \A i \in 1..Len(output.q) : output.q[i] = Sentinel => i = Len(output.q)
            /\ output.consumer = "stopped" =>
                 /\ output.yielded = output.produced
                 /\ output.producer \in {"finished", "raised"}
                 /\ output.q = <<>>)
    /\ (output.consumer = "waiting") ~> (output.consumer \in {"stopped", "closed"})

\* run_agent raised after two updates and the consumer has stopped on the sentinel
C29_Witness ==
    /\ output.consumer = "stopped"
    /\ output.producer = "raised"
    /\ Len(output.yielded) = MaxUpdates

\* C30: when run_agent raises before it has yielded a "done" update, the failure
\* reaches process_agent, which goes on to another attempt or re-raises after
\* the last one: it never ends by returning None.
C30_ProducerFailureRetried ==
    (/\ output.producer = "raised"
     /\ \A i \in 1..Len(output.produced) : output.produced[i] # "done")
    => ~(xpc = "returned" /\ output.answer = Sentinel)

====
